---- MODULE Spec2Model ----
(***************************************************************************)
(* A model of gaspy/vasp_functions.py: the runVasp driver (input           *)
(* normalisation, driver selection, the two relaxation drivers, the        *)
(* trajectory file and the returned values) and the hex transport          *)
(* (atoms_to_hex, hex_to_file).                                            *)
(***************************************************************************)
EXTENDS Integers, Sequences, FiniteSets, TLC

VARIABLES
    pc,          \* position of the runVasp call in progress
    atoms,       \* the ase.Atoms object of the call: cell, constraints, geometry
    vasp_flags,  \* the vasp_flags dictionary of the call
    fname_out,   \* the fname_out argument of the call
    environ,     \* os.environ of the process
    allTraj,     \* content of 'all.traj' in the working directory (frames)
    relaxLog,    \* whether 'relax.log' has been written
    outFiles,    \* content of the files written through fname_out
    images,      \* the snapshots this call's relaxation produced
    final_image, \* the value returned by the relaxation driver
    driver,      \* which relaxation driver this call invoked
    enginePath,  \* VASP_PP_PATH as read by the engine of this call
    ret,         \* the tuple returned by runVasp
    err,         \* where the call failed, if it did
    nruns,       \* calls started so far
    fname_in,    \* the structure stored in the file named by fname_in
    \* atoms_to_hex / hex_to_file, one entry per caller
    hpc,         \* position of each caller
    hatoms,      \* the bytes atoms.write produces for the caller's structure
    uuid,        \* the random identifier drawn for the temporary file name
    fs,          \* directory: file name -> inode (0: no such file)
    idata,       \* inode -> content
    fhandle,     \* the inode the caller's open file refers to (0: none)
    _hex,        \* the local _hex of the call (a one-element sequence when bound)
    steps,       \* how the write, read and remove of the call ended
    hres,        \* what the call gave its caller: a value or an error
    hex_,        \* the hex_ argument of the last hex_to_file call
    target,      \* the file hex_to_file wrote
    \* runs sharing one process environment, one entry per thread
    tpc,         \* position of each thread's run
    tflags,      \* vasp_flags of each thread's run
    tversion,    \* the pp_version the caller passed to each thread's run
    tpath,       \* VASP_PP_PATH as read by the engine of each thread's run
    alone        \* whether no other run was in progress during this run

runVars == <<pc, atoms, vasp_flags, fname_out, allTraj, relaxLog, outFiles,
             images, final_image, driver, enginePath, ret, err, nruns, fname_in>>
hexVars == <<hpc, hatoms, uuid, fs, idata, fhandle, _hex, steps, hres,
             hex_, target>>
thrVars == <<tpc, tflags, tversion, tpath, alone>>
vars == <<runVars, environ, hexVars, thrVars>>

----------------------------------------------------------------------------
(* Bounds *)

MaxRuns == 2
MaxSteps == 2
MaxCons == 2

----------------------------------------------------------------------------
(* Values *)

Unset == "<unset>"
NoFile == "<no file>"
NoImage == [geom |-> 0 - 1, energy |-> 0]

SeqsUpTo(S, n) == UNION {[1..k -> S] : k \in 0..n}

\* dictionary helpers (vasp_flags[k] = v, del vasp_flags[k])
SetKey(d, k, v) == [x \in (DOMAIN d) \cup {k} |-> IF x = k THEN v ELSE d[x]]
DelKey(d, k) == [x \in (DOMAIN d) \ {k} |-> d[x]]

\* str.lower() on the pseudopotential family names used here
Lower(s) ==
    CASE s = "LDA" -> "lda"
      [] s = "Lda" -> "lda"
      [] s = "PBE" -> "pbe"
      [] s = "Pbe" -> "pbe"
      [] s = "PW91" -> "pw91"
      [] OTHER -> s

\* cross product and dot product of 3-vectors (np.cross, np.dot)
Cross(a, b) == << a[2] * b[3] - a[3] * b[2],
                  a[3] * b[1] - a[1] * b[3],
                  a[1] * b[2] - a[2] * b[1] >>
Dot(a, b) == a[1] * b[1] + a[2] * b[2] + a[3] * b[3]
TripleProduct(cell) == Dot(Cross(cell[1], cell[2]), cell[3])

\* atoms.cell[[1, 0, 2], :]
SwapFirstTwo(cell) == << cell[2], cell[1], cell[3] >>

\* lines 115-116: the right-hand-rule fix of the unit cell
CleanCellSwapOnNonPositive(cell) ==
    IF TripleProduct(cell) <= 0 THEN SwapFirstTwo(cell) ELSE cell
CleanCell(cell) ==
    IF TripleProduct(cell) < 0 THEN SwapFirstTwo(cell) ELSE cell

\* lines 119-122: the 'xc' tag chosen from vasp_flags["pp"]
SetXc(flags) ==
    IF Lower(flags["pp"]) = "lda" THEN SetKey(flags, "xc", "lda")
    ELSE IF Lower(flags["pp"]) = "pbe" THEN SetKey(flags, "xc", "PBE")
    ELSE flags

\* lines 126-128: os.environ["VASP_PP_BASE"] + "/" + str(pseudopotential) + "/"
PPPath(base, version) == base \o "/" \o version \o "/"

\* the lookups of _clean_up_vasp_inputs that raise KeyError
CleanUpRaisesOnKeysOnly(flags, env) ==
    \/ "pp" \notin DOMAIN flags
    \/ "pp_version" \notin DOMAIN flags
CleanUpRaises(flags, env) ==
    \/ "pp" \notin DOMAIN flags
    \/ "pp_version" \notin DOMAIN flags
    \/ env["VASP_PP_BASE"] = Unset

\* lines 73-76: the parallelism hints taken from the environment
IntOfFloat(s) == CASE s = "4" -> 4 [] s = "2.0" -> 2
WithHints(flags, env) ==
    LET f1 == IF env["NCORE"] # Unset
              THEN SetKey(flags, "ncore", IntOfFloat(env["NCORE"])) ELSE flags
    IN IF env["KPAR"] # Unset
       THEN SetKey(f1, "kpar", IntOfFloat(env["KPAR"])) ELSE f1

\* lines 79-84: the loop over atoms.constraints, with its break
allowable_constraints == {"FixAtoms"}
RECURSIVE ScanConstraints(_, _)
ScanConstraints(cs, i) ==
    IF i > Len(cs) THEN TRUE
    ELSE IF cs[i] \notin allowable_constraints THEN FALSE
    ELSE ScanConstraints(cs, i + 1)
FirstConstraintOnly(cs) == Len(cs) = 0 \/ cs[1] \in allowable_constraints
VaspCompatible(cs) == ScanConstraints(cs, 1)

----------------------------------------------------------------------------
(* The inputs of a call *)

Kinds == {"FixAtoms", "FixBondLength"}
ConstraintSets == SeqsUpTo(Kinds, MaxCons)

RightHanded == << <<1, 0, 0>>, <<0, 1, 0>>, <<0, 0, 1>> >>
LeftHanded == << <<0, 1, 0>>, <<1, 0, 0>>, <<0, 0, 1>> >>
ExampleCells == {RightHanded, LeftHanded}

Geoms == {1, 2}
PotentialEnergy(g) == 0 - (10 + g)
Image(g) == [geom |-> g, energy |-> PotentialEnergy(g)]
Images == {Image(g) : g \in Geoms}
Trajectories == SeqsUpTo(Images, MaxSteps) \ {<< >>}

Versions == {"5.3.5", "5.4"}
RunFlags ==
    {[pp |-> "PBE", pp_version |-> v] : v \in Versions}
        \cup {[pp |-> "lda"]}
OutNames == {"out.traj"}

InputGeom == 0

----------------------------------------------------------------------------
(* The byte transport: binascii.hexlify / binascii.unhexlify *)

HexDigits == << "0", "1", "2", "3", "4", "5", "6", "7",
                "8", "9", "a", "b", "c", "d", "e", "f" >>

\* binascii.hexlify(b).decode("utf-8"): two lower-case digits per byte, high first
HexlifyLowFirst(b) ==
    [i \in 1..(2 * Len(b)) |->
        IF i % 2 = 1 THEN HexDigits[(b[(i + 1) \div 2] % 16) + 1]
        ELSE HexDigits[(b[i \div 2] \div 16) + 1]]
Hexlify(b) ==
    [i \in 1..(2 * Len(b)) |->
        IF i % 2 = 1 THEN HexDigits[(b[(i + 1) \div 2] \div 16) + 1]
        ELSE HexDigits[(b[i \div 2] % 16) + 1]]

\* the value of one hex digit; unhexlify accepts both cases
DigitVal(c) ==
    CASE c = "A" -> 10 [] c = "B" -> 11 [] c = "C" -> 12
      [] c = "D" -> 13 [] c = "E" -> 14 [] c = "F" -> 15
      [] OTHER -> (CHOOSE v \in 0..15 : HexDigits[v + 1] = c)

\* binascii.unhexlify(h): one byte per pair of digits
Unhexlify(h) ==
    [i \in 1..(Len(h) \div 2) |->
        16 * DigitVal(h[2 * i - 1]) + DigitVal(h[2 * i])]

\* the bytes of a trajectory file: one frame per snapshot, in order
FrameBytes(im) == << im.geom, 0 - im.energy >>
RECURSIVE TrajBytes(_)
TrajBytes(tr) ==
    IF tr = << >> THEN << >> ELSE FrameBytes(Head(tr)) \o TrajBytes(Tail(tr))

\* the snapshots a trajectory file's bytes hold (ase.io.read of the file)
RECURSIVE ReadTraj(_)
ReadTraj(b) ==
    IF Len(b) < 2 THEN << >>
    ELSE << [geom |-> b[1], energy |-> 0 - b[2]] >> \o ReadTraj(SubSeq(b, 3, Len(b)))

----------------------------------------------------------------------------
(* runVasp, one call after another in one process and working directory *)

NoRet == << >>

\* line 44: atoms = ase.io.read(str(fname_in)), for a call with the given inputs
runVasp(cells, flagsets, consets) ==
    /\ pc \in {"idle", "done", "failed"}
    /\ nruns < MaxRuns
    /\ \E c \in cells, f \in flagsets, k \in consets, o \in OutNames :
        /\ fname_in' = [cell |-> c, constraints |-> k, geom |-> InputGeom]
        /\ atoms' = fname_in'
        /\ vasp_flags' = f
        /\ fname_out' = o
    /\ pc' = "clean"
    /\ nruns' = nruns + 1
    /\ images' = << >>
    /\ final_image' = NoImage
    /\ driver' = {}
    /\ enginePath' = Unset
    /\ ret' = NoRet
    /\ err' = "none"
    /\ UNCHANGED <<environ, allTraj, relaxLog, outFiles, hexVars, thrVars>>

\* lines 98-131: _clean_up_vasp_inputs
CleanUpFlags(flags) == DelKey(SetXc(flags), "pp_version")
CleanUpEnvironSetDefault(env, flags) ==
    IF env["VASP_PP_PATH"] # Unset THEN env
    ELSE [env EXCEPT !["VASP_PP_PATH"] =
                PPPath(env["VASP_PP_BASE"], flags["pp_version"])]
CleanUpEnviron(env, flags) ==
    [env EXCEPT !["VASP_PP_PATH"] = PPPath(env["VASP_PP_BASE"], flags["pp_version"])]

_clean_up_vasp_inputs ==
    /\ pc = "clean"
    /\ atoms' = [atoms EXCEPT !.cell = CleanCell(atoms.cell)]
    /\ IF CleanUpRaises(vasp_flags, environ)
       THEN /\ pc' = "failed"
            /\ err' = "_clean_up_vasp_inputs"
            /\ vasp_flags' = IF "pp" \in DOMAIN vasp_flags
                             THEN SetXc(vasp_flags) ELSE vasp_flags
            /\ UNCHANGED environ
       ELSE /\ pc' = "select"
            /\ vasp_flags' = CleanUpFlags(vasp_flags)
            /\ environ' = CleanUpEnviron(environ, vasp_flags)
            /\ UNCHANGED err
    /\ UNCHANGED <<fname_out, allTraj, relaxLog, outFiles, images, final_image,
                   driver, enginePath, ret, nruns, fname_in,
                   hexVars, thrVars>>

\* lines 73-91: the hints, the constraint check and the choice of the driver
_perform_relaxation ==
    /\ pc = "select"
    /\ vasp_flags' = WithHints(vasp_flags, environ)
    /\ pc' = IF VaspCompatible(atoms.constraints) THEN "vasp" ELSE "ase"
    /\ UNCHANGED <<atoms, fname_out, environ, allTraj, relaxLog, outFiles, images,
                   final_image, driver, enginePath, ret, err, nruns, fname_in,
                   hexVars, thrVars>>

\* lines 190-193: TrajectoryWriter("all.traj", "a")
TrajOverwrite(old, imgs) == imgs
TrajAppend(old, imgs) == old \o imgs

\* line 194: images[-1]
FirstImage(imgs) == imgs[1]
LastImage(imgs) == imgs[Len(imgs)]

\* lines 159-194: _relax_with_vasp
_relax_with_vasp ==
    /\ pc = "vasp"
    /\ driver' = driver \cup {"_relax_with_vasp"}
    /\ enginePath' = environ["VASP_PP_PATH"]
    /\ \/ \E tr \in Trajectories :
            /\ images' = tr
            /\ allTraj' = TrajAppend(allTraj, tr)
            /\ final_image' = LastImage(tr)
            /\ pc' = "save"
            /\ UNCHANGED err
       \/ /\ pc' = "failed"
          /\ err' = "engine"
          /\ UNCHANGED <<images, allTraj, final_image>>
    /\ UNCHANGED <<atoms, vasp_flags, fname_out, environ, relaxLog, outFiles,
                   ret, nruns, fname_in,
                   hexVars, thrVars>>

\* lines 134-156: _relax_with_ase; BFGS opens 'all.traj' and 'relax.log' for
\* writing, records every step and leaves atoms at the last one
_relax_with_ase ==
    /\ pc = "ase"
    /\ driver' = driver \cup {"_relax_with_ase"}
    /\ enginePath' = environ["VASP_PP_PATH"]
    /\ vasp_flags' = SetKey(SetKey(vasp_flags, "ibrion", 2), "nsw", 0)
    /\ relaxLog' = "written"
    /\ \/ \E tr \in Trajectories :
            /\ images' = tr
            /\ allTraj' = TrajOverwrite(allTraj, tr)
            /\ atoms' = [atoms EXCEPT !.geom = tr[Len(tr)].geom]
            /\ final_image' = Image(atoms'.geom)
            /\ pc' = "save"
            /\ UNCHANGED err
       \/ /\ pc' = "failed"
          /\ err' = "engine"
          /\ allTraj' = << >>
          /\ UNCHANGED <<images, atoms, final_image>>
    /\ UNCHANGED <<fname_out, environ, outFiles, ret, nruns, fname_in,
                   hexVars, thrVars>>

\* line 94: final_image.write(str(fname_out))
SaveFinal ==
    /\ pc = "save"
    /\ outFiles' = [outFiles EXCEPT ![fname_out] = final_image]
    /\ pc' = "parse"
    /\ UNCHANGED <<atoms, vasp_flags, fname_out, environ, allTraj, relaxLog, images,
                   final_image, driver, enginePath, ret, err, nruns, fname_in,
                   hexVars, thrVars>>

\* lines 50-54: the values returned by runVasp
ReturnedEnergy(final, imgs) == final.energy
ParseOutput ==
    /\ pc = "parse"
    /\ ret' = << [atoms_str |-> atoms,
                  traj_hex |-> Hexlify(TrajBytes(allTraj)),
                  energy |-> ReturnedEnergy(final_image, images)] >>
    /\ pc' = "done"
    /\ UNCHANGED <<atoms, vasp_flags, fname_out, environ, allTraj, relaxLog,
                   outFiles, images, final_image, driver, enginePath, err, nruns, fname_in,
                   hexVars, thrVars>>

----------------------------------------------------------------------------
(* atoms_to_hex and hex_to_file *)

NumProcs == 2
MaxLen == 3

ByteVals == {10, 171}
Payloads == SeqsUpTo(ByteVals, MaxLen)
OwnPayloads == {<< 10 >>, << 171, 10 >>}

\* the values uuid.uuid4() may give
UuidValues == << "3f2a", "9c1d", "b7e0", "e4d8" >>
Uuids(n) == {UuidValues[i] : i \in 1..n}

\* line 209: fname = str(uuid.uuid4()) + ".traj"
TempNameFixed(u) == "tmp.traj"
TempName(u) == u \o ".traj"
FNames == {TempName(UuidValues[i]) : i \in 1..Len(UuidValues)}
FName(p) == TempName(uuid[p])

Inodes == 1..(2 * NumProcs)
InUse(dir, handles) ==
    {dir[n] : n \in DOMAIN dir} \cup {handles[q] : q \in DOMAIN handles}
FreshInode == CHOOSE i \in Inodes :
    /\ i \notin InUse(fs, fhandle)
    /\ \A j \in Inodes : j < i => j \in InUse(fs, fhandle)
\* an inode no name and no open file refers to is gone
Collect(dir, handles, data) ==
    [i \in Inodes |-> IF i \in InUse(dir, handles) THEN data[i] ELSE << >>]

NoSteps == [write |-> "-", read |-> "-", remove |-> "-", data |-> << >>]
NoResult == [kind |-> "none", value |-> << >>, error |-> ""]
Returned(h) == [kind |-> "returned", value |-> h, error |-> ""]
Raised(e) == [kind |-> "raised", value |-> << >>, error |-> e]

\* lines 212-216: the statements whose OSError the except clause catches
ExceptNothing(step) == FALSE
ExceptPass(step) == step \in {"read", "remove"}

\* line 218: return _hex, with _hex bound or not
ReturnHex(hexl) ==
    IF hexl = << >> THEN Raised("UnboundLocalError") ELSE Returned(hexl[1])

hexOther == <<runVars, environ, thrVars>>

\* lines 197-209: a call of atoms_to_hex by caller p draws its file name
atoms_to_hex(p, payloads, uuids, from) ==
    /\ hpc[p] \in from
    /\ \E b \in payloads, u \in uuids :
        /\ hatoms' = [hatoms EXCEPT ![p] = b]
        /\ uuid' = [uuid EXCEPT ![p] = u]
    /\ _hex' = [_hex EXCEPT ![p] = << >>]
    /\ steps' = [steps EXCEPT ![p] = NoSteps]
    /\ hres' = [hres EXCEPT ![p] = NoResult]
    /\ hpc' = [hpc EXCEPT ![p] = "write"]
    /\ UNCHANGED <<fs, idata, fhandle, hex_, target, hexOther>>

\* line 210: atoms.write(fname)
WriteTemp(p) ==
    /\ hpc[p] = "write"
    /\ \/ LET i == IF fs[FName(p)] = 0 THEN FreshInode ELSE fs[FName(p)]
          IN /\ fs' = [fs EXCEPT ![FName(p)] = i]
             /\ idata' = [idata EXCEPT ![i] = hatoms[p]]
             /\ steps' = [steps EXCEPT ![p].write = "ok"]
             /\ hpc' = [hpc EXCEPT ![p] = "open"]
             /\ UNCHANGED hres
       \/ /\ steps' = [steps EXCEPT ![p].write = "err"]
          /\ hres' = [hres EXCEPT ![p] = Raised("OSError")]
          /\ hpc' = [hpc EXCEPT ![p] = "failed"]
          /\ UNCHANGED <<fs, idata>>
    /\ UNCHANGED <<hatoms, uuid, fhandle, _hex, hex_, target, hexOther>>

\* line 211: open(fname, "rb")
OpenTemp(p) ==
    /\ hpc[p] = "open"
    /\ IF fs[FName(p)] = 0
       THEN /\ hres' = [hres EXCEPT ![p] = Raised("FileNotFoundError")]
            /\ hpc' = [hpc EXCEPT ![p] = "failed"]
            /\ UNCHANGED fhandle
       ELSE /\ fhandle' = [fhandle EXCEPT ![p] = fs[FName(p)]]
            /\ hpc' = [hpc EXCEPT ![p] = "read"]
            /\ UNCHANGED hres
    /\ UNCHANGED <<hatoms, uuid, fs, idata, _hex, steps, hex_, target, hexOther>>

\* what an OSError raised inside the with block at the given step leads to
OnOSError(p, step) ==
    IF ExceptPass(step)
    THEN /\ hpc' = [hpc EXCEPT ![p] = "return"]
         /\ UNCHANGED <<hres, fhandle, idata>>
    ELSE /\ hpc' = [hpc EXCEPT ![p] = "failed"]
         /\ hres' = [hres EXCEPT ![p] = Raised("OSError")]
         /\ fhandle' = [fhandle EXCEPT ![p] = 0]
         /\ idata' = Collect(fs, fhandle', idata)

\* line 213: _hex = binascii.hexlify(fhandle.read()).decode("utf-8")
ReadTemp(p) ==
    /\ hpc[p] = "read"
    /\ \/ /\ _hex' = [_hex EXCEPT ![p] = << Hexlify(idata[fhandle[p]]) >>]
          /\ steps' = [steps EXCEPT ![p].read = "ok",
                                    ![p].data = idata[fhandle[p]]]
          /\ hpc' = [hpc EXCEPT ![p] = "remove"]
          /\ UNCHANGED <<hres, fhandle, idata>>
       \/ /\ steps' = [steps EXCEPT ![p].read = "err"]
          /\ OnOSError(p, "read")
          /\ UNCHANGED _hex
    /\ UNCHANGED <<hatoms, uuid, fs, hex_, target, hexOther>>

\* line 214: os.remove(fname)
RemoveTemp(p) ==
    /\ hpc[p] = "remove"
    /\ \/ /\ fs[FName(p)] # 0
          /\ fs' = [fs EXCEPT ![FName(p)] = 0]
          /\ idata' = Collect(fs', fhandle, idata)
          /\ steps' = [steps EXCEPT ![p].remove = "ok"]
          /\ hpc' = [hpc EXCEPT ![p] = "return"]
          /\ UNCHANGED <<hres, fhandle>>
       \/ /\ steps' = [steps EXCEPT ![p].remove = "err"]
          /\ OnOSError(p, "remove")
          /\ UNCHANGED fs
    /\ UNCHANGED <<hatoms, uuid, _hex, hex_, target, hexOther>>

\* lines 211 and 218: the with block closes the file, then return _hex
ReturnFromHex(p) ==
    /\ hpc[p] = "return"
    /\ fhandle' = [fhandle EXCEPT ![p] = 0]
    /\ idata' = Collect(fs, fhandle', idata)
    /\ hres' = [hres EXCEPT ![p] = ReturnHex(_hex[p])]
    /\ hpc' = [hpc EXCEPT ![p] = IF hres'[p].kind = "returned" THEN "done"
                                 ELSE "failed"]
    /\ UNCHANGED <<hatoms, uuid, fs, _hex, steps, hex_, target, hexOther>>

\* binascii.unhexlify raises on an odd number of digits
UnhexlifyRaises(h) == Len(h) % 2 = 1
OtherHex == {<< "a" >>, << "A", "B" >>}

\* lines 224-238: hex_to_file(file_name, hex_); open(.., 'wb') empties the file
\* before unhexlify runs
hex_to_file ==
    /\ \E h \in {hres[p].value : p \in {q \in DOMAIN hres : hres[q].kind = "returned"}}
                \cup OtherHex :
        /\ hex_' = << h >>
        /\ target' = IF UnhexlifyRaises(h) THEN << << >> >> ELSE << Unhexlify(h) >>
    /\ UNCHANGED <<hpc, hatoms, uuid, fs, idata, fhandle, _hex, steps, hres,
                   hexOther>>

----------------------------------------------------------------------------
(* Runs in several threads of one process: they share os.environ *)

MaxThreads == 2
Threads == 1..MaxThreads
Active == {"clean", "engine"}

thrOther == <<runVars, hexVars>>

\* a thread enters _perform_relaxation with its own vasp_flags
ThreadStart(t) ==
    /\ tpc[t] \in {"idle", "done", "failed"}
    /\ \E v \in Versions :
        /\ tflags' = [tflags EXCEPT ![t] = [pp |-> "PBE", pp_version |-> v]]
        /\ tversion' = [tversion EXCEPT ![t] = v]
    /\ tpc' = [tpc EXCEPT ![t] = "clean"]
    /\ tpath' = [tpath EXCEPT ![t] = Unset]
    /\ alone' = [u \in Threads |->
                    IF u = t THEN \A w \in Threads \ {t} : tpc[w] \notin Active
                    ELSE IF tpc[u] \in Active THEN FALSE ELSE alone[u]]
    /\ UNCHANGED <<environ, thrOther>>

\* lines 98-131, run by thread t
ThreadCleanUp(t) ==
    /\ tpc[t] = "clean"
    /\ IF CleanUpRaises(tflags[t], environ)
       THEN /\ tpc' = [tpc EXCEPT ![t] = "failed"]
            /\ UNCHANGED <<environ, tflags>>
       ELSE /\ tpc' = [tpc EXCEPT ![t] = "engine"]
            /\ environ' = CleanUpEnviron(environ, tflags[t])
            /\ tflags' = [tflags EXCEPT ![t] = CleanUpFlags(tflags[t])]
    /\ UNCHANGED <<tversion, tpath, alone, thrOther>>

\* lines 174 and 155: the engine of thread t's run reads VASP_PP_PATH
ThreadEngine(t) ==
    /\ tpc[t] = "engine"
    /\ tpath' = [tpath EXCEPT ![t] = environ["VASP_PP_PATH"]]
    /\ tpc' = [tpc EXCEPT ![t] = "done"]
    /\ UNCHANGED <<environ, tflags, tversion, alone, thrOther>>

----------------------------------------------------------------------------
(* Initial states *)

Environments ==
    {[VASP_PP_BASE |-> b, VASP_PP_PATH |-> Unset, NCORE |-> n, KPAR |-> k] :
        b \in {Unset, "/pp"}, n \in {Unset, "4"}, k \in {Unset, "2.0"}}
PlainEnvironment ==
    [VASP_PP_BASE |-> "/pp", VASP_PP_PATH |-> Unset, NCORE |-> Unset, KPAR |-> Unset]

InitRun ==
    /\ pc = "idle"
    /\ fname_in = [cell |-> RightHanded, constraints |-> << >>, geom |-> InputGeom]
    /\ atoms = fname_in
    /\ vasp_flags = << >>
    /\ fname_out = NoFile
    /\ allTraj = << >>
    /\ relaxLog = "absent"
    /\ outFiles = [o \in OutNames |-> NoImage]
    /\ images = << >>
    /\ final_image = NoImage
    /\ driver = {}
    /\ enginePath = Unset
    /\ ret = NoRet
    /\ err = "none"
    /\ nruns = 0

InitHex(n) ==
    /\ hpc = [p \in 1..n |-> "idle"]
    /\ hatoms = [p \in 1..n |-> << >>]
    /\ uuid = [p \in 1..n |-> Unset]
    /\ fs = [f \in FNames |-> 0]
    /\ idata = [i \in Inodes |-> << >>]
    /\ fhandle = [p \in 1..n |-> 0]
    /\ _hex = [p \in 1..n |-> << >>]
    /\ steps = [p \in 1..n |-> NoSteps]
    /\ hres = [p \in 1..n |-> NoResult]
    /\ hex_ = << >>
    /\ target = << >>

InitThreads ==
    /\ tpc = [t \in Threads |-> "idle"]
    /\ tflags = [t \in Threads |-> << >>]
    /\ tversion = [t \in Threads |-> Unset]
    /\ tpath = [t \in Threads |-> Unset]
    /\ alone = [t \in Threads |-> TRUE]

----------------------------------------------------------------------------
(* Spec: runVasp calls, one after another, in one working directory *)

Init == InitRun /\ environ \in Environments /\ InitHex(1) /\ InitThreads

Next ==
    \/ runVasp(ExampleCells, RunFlags, ConstraintSets)
    \/ _clean_up_vasp_inputs
    \/ _perform_relaxation
    \/ _relax_with_vasp
    \/ _relax_with_ase
    \/ SaveFinal
    \/ ParseOutput

Spec == Init /\ [][Next]_vars

(* SpecCell: the normaliser on every small integer cell *)

MaxCoord == 1
Coords == (0 - 1)..MaxCoord
Vectors == [1..3 -> Coords]
AllCells == [1..3 -> Vectors]
CellFlags == {[pp |-> "PBE", pp_version |-> "5.4"]}

InitCell == InitRun /\ environ = PlainEnvironment /\ InitHex(1) /\ InitThreads

NextCell ==
    \/ runVasp(AllCells, CellFlags, {<< >>})
    \/ _clean_up_vasp_inputs

SpecCell == InitCell /\ [][NextCell]_vars

(* SpecFlags: the normaliser on every parameter mapping *)

Missing == "<missing>"
Dict(pp, version, xc) ==
    LET full == [k \in {"pp", "pp_version", "xc"} |->
                    CASE k = "pp" -> pp [] k = "pp_version" -> version [] OTHER -> xc]
    IN [k \in {x \in DOMAIN full : full[x] # Missing} |-> full[k]]
Families == {"lda", "LDA", "Lda", "pbe", "PBE", "Pbe", "PW91"}
AllFlags ==
    {Dict(pp, v, xc) : pp \in Families \cup {Missing},
                       v \in Versions \cup {Missing},
                       xc \in {"pw91", Missing}}

NextFlags ==
    \/ runVasp(ExampleCells, AllFlags, {<< >>})
    \/ _clean_up_vasp_inputs

SpecFlags == Init /\ [][NextFlags]_vars

(* SpecHex: one caller of atoms_to_hex and hex_to_file, call after call *)

InitHexOne == InitRun /\ environ = PlainEnvironment /\ InitHex(1) /\ InitThreads

NextHex ==
    \/ \E p \in DOMAIN hpc : atoms_to_hex(p, Payloads, Uuids(1), {"idle", "done", "failed"})
    \/ \E p \in DOMAIN hpc : WriteTemp(p)
    \/ \E p \in DOMAIN hpc : OpenTemp(p)
    \/ \E p \in DOMAIN hpc : ReadTemp(p)
    \/ \E p \in DOMAIN hpc : RemoveTemp(p)
    \/ \E p \in DOMAIN hpc : ReturnFromHex(p)
    \/ hex_to_file

SpecHex == InitHexOne /\ [][NextHex]_vars

(* SpecConc: concurrent callers of atoms_to_hex, one call each *)

InitConc == InitRun /\ environ = PlainEnvironment /\ InitHex(NumProcs) /\ InitThreads

NextConc ==
    \/ \E p \in DOMAIN hpc : atoms_to_hex(p, OwnPayloads, Uuids(NumProcs), {"idle"})
    \/ \E p \in DOMAIN hpc : WriteTemp(p)
    \/ \E p \in DOMAIN hpc : OpenTemp(p)
    \/ \E p \in DOMAIN hpc : ReadTemp(p)
    \/ \E p \in DOMAIN hpc : RemoveTemp(p)
    \/ \E p \in DOMAIN hpc : ReturnFromHex(p)

SpecConc == InitConc /\ [][NextConc]_vars

(* SpecThreads: runs of several threads sharing the process environment *)

InitThr == InitRun /\ environ = PlainEnvironment /\ InitHex(1) /\ InitThreads

NextThreads ==
    \/ \E t \in Threads : ThreadStart(t)
    \/ \E t \in Threads : ThreadCleanUp(t)
    \/ \E t \in Threads : ThreadEngine(t)

SpecThreads == InitThr /\ [][NextThreads]_vars

----------------------------------------------------------------------------
(* The claims *)

(* C1: when a runVasp call has completed, with either driver, the structure
   written to fname_out is the last snapshot this run appended to 'all.traj',
   and the returned energy is the potential energy of that same snapshot. *)
C1_FinalImageIsLastSnapshot ==
    pc = "done" =>
        /\ images # << >>
        /\ allTraj # << >>
        /\ allTraj[Len(allTraj)] = images[Len(images)]
        /\ outFiles[fname_out] = images[Len(images)]
        /\ ret[1].energy = images[Len(images)].energy

C1_Witness ==
    /\ pc = "done"
    /\ nruns = 2
    /\ driver = {"_relax_with_vasp"}
    /\ Len(images) >= 2
    /\ images[1] # images[Len(images)]
    /\ Len(allTraj) > Len(images)
    /\ outFiles[fname_out] = images[Len(images)]

(* C2: the engine-native driver is invoked exactly when every constraint is of
   kind FixAtoms (the empty set included), the fallback driver exactly when some
   constraint, at any position, is of another kind; one driver per run. *)
C2_DriverSelection ==
    LET onlyFixAtoms ==
            \A i \in 1..Len(atoms.constraints) : atoms.constraints[i] = "FixAtoms"
    IN /\ pc = "vasp" => onlyFixAtoms
       /\ pc = "ase" => ~onlyFixAtoms
       /\ pc \in {"save", "parse", "done"} =>
            driver = IF onlyFixAtoms THEN {"_relax_with_vasp"}
                     ELSE {"_relax_with_ase"}
       /\ Cardinality(driver) <= 1

C2_Witness ==
    /\ pc = "save"
    /\ Len(atoms.constraints) >= 2
    /\ atoms.constraints[1] = "FixAtoms"
    /\ atoms.constraints[Len(atoms.constraints)] = "FixBondLength"
    /\ driver = {"_relax_with_ase"}

(* C3: after the normaliser, a cell whose triple product (v1 x v2) . v3 was
   negative is (v2, v1, v3) with a non-negative triple product, any other cell
   (the zero case included) is the input cell; the third vector never changes. *)
C3_RightHandRule ==
    pc \notin {"idle", "clean"} =>
        LET c == fname_in.cell
            r == atoms.cell
        IN /\ TripleProduct(c) < 0 =>
                /\ r = << c[2], c[1], c[3] >>
                /\ TripleProduct(r) >= 0
           /\ TripleProduct(c) >= 0 => r = c
           /\ r[3] = c[3]

C3_Witness ==
    /\ pc = "select"
    /\ TripleProduct(fname_in.cell) < 0
    /\ atoms.cell = << fname_in.cell[2], fname_in.cell[1], fname_in.cell[3] >>
    /\ atoms.cell # fname_in.cell
    /\ TripleProduct(atoms.cell) > 0

(* C4: hex_to_file, given the hex string atoms_to_hex returned for a file of
   content x, leaves a file whose content is x, byte for byte. *)
C4_RoundTrip ==
    \A p \in DOMAIN hres :
        (hres[p].kind = "returned" /\ hex_ = << hres[p].value >>) =>
            target = << steps[p].data >>

C4_Witness ==
    /\ hres[1].kind = "returned"
    /\ hex_ = << hres[1].value >>
    /\ Len(steps[1].data) >= 2
    /\ steps[1].data[1] # steps[1].data[2]
    /\ target = << steps[1].data >>

(* C5: with VASP_PP_BASE unset a run fails inside _clean_up_vasp_inputs: no
   driver is invoked, the engine reads nothing, and 'all.traj', 'relax.log',
   the output file and VASP_PP_PATH are never written. *)
C5_MissingBaseFailsEarly ==
    /\ [](environ["VASP_PP_BASE"] = Unset =>
            /\ pc \in {"idle", "clean", "failed"}
            /\ driver = {}
            /\ enginePath = Unset
            /\ (pc = "failed" => err = "_clean_up_vasp_inputs"))
    /\ [][environ["VASP_PP_BASE"] = Unset =>
            UNCHANGED <<allTraj, relaxLog, outFiles, environ>>]_vars

C5_Witness ==
    /\ environ["VASP_PP_BASE"] = Unset
    /\ pc = "failed"
    /\ err = "_clean_up_vasp_inputs"
    /\ "pp" \in DOMAIN vasp_flags
    /\ "pp_version" \in DOMAIN vasp_flags
    /\ nruns = 2

(* C6: the traj_hex a call returns decodes to exactly the snapshots of that
   call's relaxation, with nothing left over from an earlier call. *)
C6_TrajHexIsThisRunOnly ==
    pc = "done" => ReadTraj(Unhexlify(ret[1].traj_hex)) = images

(* C7: once the temporary file is written and read, atoms_to_hex returns the
   hex encoding of the bytes read whether or not the deletion fails; after a
   successful deletion the file is gone on return; every other failure reaches
   the caller as an error, never as a returned value. *)
C7_BestEffortCleanup ==
    \A p \in DOMAIN hpc :
        /\ (hpc[p] \in {"done", "failed"} /\ steps[p].write = "ok"
                /\ steps[p].read = "ok") =>
              /\ hpc[p] = "done"
              /\ hres[p].kind = "returned"
              /\ hres[p].value = Hexlify(steps[p].data)
        /\ (hpc[p] = "done" /\ steps[p].remove = "ok") => fs[FName(p)] = 0
        /\ (hpc[p] \in {"done", "failed"}
                /\ (steps[p].write # "ok" \/ steps[p].read # "ok")) =>
              /\ hpc[p] = "failed"
              /\ hres[p].kind = "raised"

C7_Witness ==
    /\ hpc[1] = "done"
    /\ steps[1].remove = "err"
    /\ hres[1].kind = "returned"
    /\ Len(steps[1].data) > 0
    /\ hres[1].value = Hexlify(steps[1].data)
    /\ fs[FName(1)] # 0

(* C8: concurrent atoms_to_hex calls that drew distinct identifiers use
   distinct files: each returns the encoding of its own bytes, and its file is
   neither overwritten nor deleted by another call. *)
DistinctUuid(p) ==
    /\ uuid[p] # Unset
    /\ \A q \in (DOMAIN hpc) \ {p} : uuid[q] # uuid[p]

C8_NoInterference ==
    \A p \in DOMAIN hpc :
        DistinctUuid(p) =>
            /\ hpc[p] = "done" => hres[p].value = Hexlify(hatoms[p])
            /\ hpc[p] \in {"open", "read", "remove"} =>
                  /\ fs[FName(p)] # 0
                  /\ idata[fs[FName(p)]] = hatoms[p]
            /\ fhandle[p] # 0 => idata[fhandle[p]] = hatoms[p]
            /\ \A q \in (DOMAIN hpc) \ {p} : uuid[q] # Unset => FName(q) # FName(p)

C8_Witness ==
    /\ hpc[1] = "read"
    /\ hpc[2] = "remove"
    /\ DistinctUuid(1)
    /\ DistinctUuid(2)
    /\ hatoms[1] # hatoms[2]
    /\ fs[FName(1)] # fs[FName(2)]

(* C9: a run during which no other run of the process was in progress has its
   engine read VASP_PP_PATH = VASP_PP_BASE + "/" + its own pp_version + "/",
   whatever earlier runs left there; a run that overlapped another one can
   read the other run's path (C9_Witness is such a state). *)
C9_OwnPathWhenAlone ==
    \A t \in Threads :
        (tpc[t] = "done" /\ alone[t]) =>
            tpath[t] = environ["VASP_PP_BASE"] \o "/" \o tversion[t] \o "/"

C9_Witness ==
    /\ tpc[1] = "done" /\ ~alone[1]
    /\ tpath[1] # environ["VASP_PP_BASE"] \o "/" \o tversion[1] \o "/"
    /\ tpc[2] = "done" /\ alone[2]
    /\ tversion[2] # tversion[1]
    /\ tpath[2] = environ["VASP_PP_BASE"] \o "/" \o tversion[2] \o "/"

(* C10: the parameters the normaliser returns hold 'xc', set from 'pp'
   compared case-insensitively ('lda' -> 'lda', 'pbe' -> 'PBE'), and no longer
   hold 'pp_version'. *)
C10_XcResolved ==
    pc = "select" =>
        /\ "xc" \in DOMAIN vasp_flags
        /\ Lower(vasp_flags["pp"]) = "lda" => vasp_flags["xc"] = "lda"
        /\ Lower(vasp_flags["pp"]) = "pbe" => vasp_flags["xc"] = "PBE"
        /\ "pp_version" \notin DOMAIN vasp_flags

====
